---- MODULE Spec2Model ----
(***************************************************************************)
(* PIL.ImageFilter: the filter classes (Kernel and the built-in kernels,   *)
(* RankFilter and its named subclasses, ModeFilter, GaussianBlur, BoxBlur, *)
(* UnsharpMask, Color3DLUT), their constructors and their filter methods.  *)
(*                                                                         *)
(* One filter object is constructed and then shared by several callers,    *)
(* each of which runs filter(image) line by line; every call a filter      *)
(* makes on the image object (the engine) is recorded per caller.          *)
(* Color3DLUT.generate runs one callback call at a time and ends in the    *)
(* constructor; the LUT it returns is shared by the callers like any other.*)
(***************************************************************************)
EXTENDS Integers, Sequences, FiniteSets, TLC

VARIABLES
    ctor,    \* the constructor call made: its class, arguments and outcome
    filt,    \* the filter object shared by the callers (NoFilter before)
    pc,      \* per caller: the line of filter() the caller is at
    arg,     \* per caller: the image the caller passed to filter()
    image,   \* per caller: filter()'s local variable `image`
    calls,   \* per caller: the engine calls made by the current filter()
    ret,     \* per caller: what filter() returned or raised
    gen,     \* Color3DLUT.generate: its frame (loop indices, table, callback calls)
    lutinit  \* Color3DLUT.__init__: its frame (the tables, the loop's position)

vars == <<ctor, filt, pc, arg, image, calls, ret, gen, lutinit>>

(***************************************************************************)
(* Bounds of the model                                                     *)
(***************************************************************************)
MaxSide == 5      \* kernel width and height are drawn from 0..MaxSide
MaxLen == 4       \* every weight sequence up to this length is tried
MaxWindow == 5    \* rank filter sizes are drawn from 0..MaxWindow
Margin == 2       \* LUT axis sizes are drawn this far around 2 and 65
MaxGrid == 3      \* LUT tables are built for axis sizes up to MaxGrid

Callers == {"c1", "c2"}
Weights == {-1, 1}
Modes == {"L", "RGB", "P"}
ImageSizes == {<<4, 4>>, <<1, 2>>}
Images == [mode : Modes, size : ImageSizes]

(***************************************************************************)
(* Python values                                                           *)
(***************************************************************************)
\* None as an optional argument: the empty option; Some(v) is a given value
None == <<>>
Some(v) == <<v>>

NoFilter == [cls |-> "None"]
NoCall == [cls |-> "None"]
NoImage == [mode |-> "None", size |-> <<0, 0>>]

Ok(obj) == [raised |-> "None", msg |-> "", obj |-> obj]
Raise(exc, msg) == [raised |-> exc, msg |-> msg, obj |-> NoFilter]

RECURSIVE SeqsUpTo(_, _)
SeqsUpTo(S, n) ==
    IF n = 0 THEN {<<>>}
    ELSE LET shorter == SeqsUpTo(S, n - 1)
         IN  shorter \cup {Append(s, x) : s \in {t \in shorter : Len(t) = n - 1}, x \in S}

(***************************************************************************)
(* Kernel                                                                  *)
(***************************************************************************)
\* functools.reduce(lambda a, b: a+b, kernel) on a non-empty sequence
RECURSIVE reduce(_)
reduce(kernel) ==
    IF Len(kernel) = 1 THEN kernel[1]
    ELSE reduce(SubSeq(kernel, 1, Len(kernel) - 1)) + kernel[Len(kernel)]

\* Kernel.__init__(size, kernel, scale=None, offset=0)
Kernel_init(size, kernel, scale, offset) ==
    IF scale = None /\ Len(kernel) = 0
    THEN Raise("TypeError", "reduce() of empty sequence with no initial value")
    ELSE LET sc == IF scale = None THEN reduce(kernel) ELSE scale[1]
         IN  IF size[1] * size[2] # Len(kernel)
             THEN Raise("ValueError", "not enough coefficients in kernel")
             ELSE Ok([cls |-> "Kernel", filterargs |-> <<size, sc, offset, kernel>>])

(***************************************************************************)
(* The built-in kernels: class attributes, BuiltinFilter.__init__ is empty *)
(***************************************************************************)
BLUR == <<<<5, 5>>, 16, 0, <<
    1, 1, 1, 1, 1,
    1, 0, 0, 0, 1,
    1, 0, 0, 0, 1,
    1, 0, 0, 0, 1,
    1, 1, 1, 1, 1 >> >>

CONTOUR == <<<<3, 3>>, 1, 255, <<
    -1, -1, -1,
    -1, 8, -1,
    -1, -1, -1 >> >>

DETAIL == <<<<3, 3>>, 6, 0, <<
    0, -1, 0,
    -1, 10, -1,
    0, -1, 0 >> >>

EDGE_ENHANCE == <<<<3, 3>>, 2, 0, <<
    -1, -1, -1,
    -1, 10, -1,
    -1, -1, -1 >> >>

EDGE_ENHANCE_MORE == <<<<3, 3>>, 1, 0, <<
    -1, -1, -1,
    -1, 9, -1,
    -1, -1, -1 >> >>

EMBOSS == <<<<3, 3>>, 1, 128, <<
    -1, 0, 0,
    0, 1, 0,
    0, 0, 0 >> >>

FIND_EDGES == <<<<3, 3>>, 1, 0, <<
    -1, -1, -1,
    -1, 8, -1,
    -1, -1, -1 >> >>

SHARPEN == <<<<3, 3>>, 16, 0, <<
    -2, -2, -2,
    -2, 32, -2,
    -2, -2, -2 >> >>

SMOOTH == <<<<3, 3>>, 13, 0, <<
    1, 1, 1,
    1, 5, 1,
    1, 1, 1 >> >>

SMOOTH_MORE == <<<<5, 5>>, 100, 0, <<
    1, 1, 1, 1, 1,
    1, 5, 5, 5, 1,
    1, 5, 44, 5, 1,
    1, 5, 5, 5, 1,
    1, 1, 1, 1, 1 >> >>

BuiltinNames == {"BLUR", "CONTOUR", "DETAIL", "EDGE_ENHANCE", "EDGE_ENHANCE_MORE",
                 "EMBOSS", "FIND_EDGES", "SHARPEN", "SMOOTH", "SMOOTH_MORE"}

\* A built-in with its scale left at 0 where the weights sum to 0
BuiltinFilterargs_ZeroScale(name) ==
    CASE name = "BLUR" -> BLUR
      [] name = "CONTOUR" -> CONTOUR
      [] name = "DETAIL" -> DETAIL
      [] name = "EDGE_ENHANCE" -> EDGE_ENHANCE
      [] name = "EDGE_ENHANCE_MORE" -> EDGE_ENHANCE_MORE
      [] name = "EMBOSS" -> <<EMBOSS[1], 0, EMBOSS[3], EMBOSS[4]>>
      [] name = "FIND_EDGES" -> FIND_EDGES
      [] name = "SHARPEN" -> SHARPEN
      [] name = "SMOOTH" -> SMOOTH
      [] name = "SMOOTH_MORE" -> SMOOTH_MORE

\* the filterargs class attribute of the built-in class `name`
BuiltinFilterargs(name) ==
    CASE name = "BLUR" -> BLUR
      [] name = "CONTOUR" -> CONTOUR
      [] name = "DETAIL" -> DETAIL
      [] name = "EDGE_ENHANCE" -> EDGE_ENHANCE
      [] name = "EDGE_ENHANCE_MORE" -> EDGE_ENHANCE_MORE
      [] name = "EMBOSS" -> EMBOSS
      [] name = "FIND_EDGES" -> FIND_EDGES
      [] name = "SHARPEN" -> SHARPEN
      [] name = "SMOOTH" -> SMOOTH
      [] name = "SMOOTH_MORE" -> SMOOTH_MORE

\* BuiltinFilter.__init__(self): pass; the object reads its class's filterargs
BuiltinFilter_init(name) ==
    Ok([cls |-> name, filterargs |-> BuiltinFilterargs(name)])

(***************************************************************************)
(* Rank filters                                                            *)
(***************************************************************************)
RankFilter_init(size, rank) ==
    Ok([cls |-> "RankFilter", size |-> size, rank |-> rank])

\* the median rank computed from the half window instead of the half area
MedianFilter_init_HalfSide(size) ==
    Ok([cls |-> "MedianFilter", size |-> size, rank |-> (size \div 2) * size])

MedianFilter_init(size) ==
    Ok([cls |-> "MedianFilter", size |-> size, rank |-> (size * size) \div 2])

MinFilter_init(size) ==
    Ok([cls |-> "MinFilter", size |-> size, rank |-> 0])

MaxFilter_init(size) ==
    Ok([cls |-> "MaxFilter", size |-> size, rank |-> size * size - 1])

(***************************************************************************)
(* Mode filter, blurs, unsharp mask                                        *)
(***************************************************************************)
ModeFilter_init(size) == Ok([cls |-> "ModeFilter", size |-> size])

GaussianBlur_init(radius) == Ok([cls |-> "GaussianBlur", radius |-> radius])

BoxBlur_init(radius) == Ok([cls |-> "BoxBlur", radius |-> radius])

UnsharpMask_init(radius, percent, threshold) ==
    Ok([cls |-> "UnsharpMask", radius |-> radius, percent |-> percent,
        threshold |-> threshold])

(***************************************************************************)
(* Color3DLUT                                                              *)
(***************************************************************************)
\* A table element is a number or a list/tuple of elements
Num(x) == [isTuple |-> FALSE, num |-> x]
Tup(s) == [isTuple |-> TRUE, v |-> s]

\* A size argument is one int or a sequence of ints
IntSize(n) == [kind |-> "int", val |-> n]
SeqSize(s) == [kind |-> "seq", val |-> s]

\* the limits of "if not 2 <= size1D <= 65"
LutMinSize == 2
LutMaxSize == 65

\* the range test with the upper limit left out of the range
InRange_Exclusive(size1D) == LutMinSize <= size1D /\ size1D < LutMaxSize

\* 2 <= size1D <= 65
InRange(size1D) == LutMinSize <= size1D /\ size1D <= LutMaxSize

\* the two messages of _check_size
MsgSizeShape == "Size should be either an integer or a tuple of three integers."
MsgSizeRange == "Size should be in [2, 65] range."

\* Color3DLUT._check_size(size); the sizes are ints, on which int(x) is x
check_size(size) ==
    IF size.kind = "seq" /\ Len(size.val) # 3
    THEN [raised |-> "ValueError", size |-> <<>>, msg |-> MsgSizeShape]
    ELSE LET sz == IF size.kind = "int"
                   THEN <<size.val, size.val, size.val>>
                   ELSE size.val
         IN  IF \E i \in 1..3 : ~InRange(sz[i])
             THEN [raised |-> "ValueError", size |-> <<>>, msg |-> MsgSizeRange]
             ELSE [raised |-> "None", size |-> sz, msg |-> ""]

MsgPixel == "The elements of the table should have a length of channels."
MsgTable == "The table should have either channels * size**3 float items or size**3 items of channels-sized tuples with floats."

\* the colors of a pixel put in front of the table
AppendPixel_AtFront(table, pixel) == pixel.v \o table

\* for color in pixel: table.append(color)
AppendPixel(table, pixel) == table \o pixel.v

NoInit == [pc |-> "None"]

\* Color3DLUT.__init__ lines 327-334: the frame once the size is checked and
\* table[0] is tested; a list of tuples goes through the loop of line 335
Color3DLUT_init_enter(size, table, channels, target_mode) ==
    LET chk == check_size(size)
        nested == table # <<>> /\ table[1].isTuple
    IN  IF chk.raised # "None"
        THEN [pc |-> "raised327", raised |-> chk.raised, msg |-> chk.msg]
        ELSE [pc |-> IF nested THEN "L335" ELSE "L342",
              raised |-> "None", msg |-> "",
              size |-> chk.size, channels |-> channels, mode |-> target_mode,
              raw_table |-> IF nested THEN table ELSE <<>>,
              k |-> 1,
              table |-> IF nested THEN <<>> ELSE table]

\* r / float(size1D-1), kept exact: the fraction in lowest terms
RECURSIVE GCD(_, _)
GCD(a, b) == IF b = 0 THEN a ELSE GCD(b, a % b)
Frac(n, d) == LET k == GCD(n, d) IN [num |-> n \div k, den |-> d \div k]

CallbackNames == {"rgb", "bgr", "rgba"}
\* the callbacks handed to generate: each returns a tuple of numbers
Callback(name, r, g, b) ==
    CASE name = "rgb" -> Tup(<<Num(r), Num(g), Num(b)>>)
      [] name = "bgr" -> Tup(<<Num(b), Num(g), Num(r)>>)
      [] name = "rgba" -> Tup(<<Num(r), Num(g), Num(b), Num(Frac(1, 1))>>)

\* the loops nested with green innermost
NextNode_GreenFastest(idx, size) ==
    IF idx.g + 1 < size[2] THEN [idx EXCEPT !.g = idx.g + 1]
    ELSE IF idx.r + 1 < size[1] THEN [idx EXCEPT !.g = 0, !.r = idx.r + 1]
    ELSE [r |-> 0, g |-> 0, b |-> idx.b + 1]

\* for b in range(size3D): for g in range(size2D): for r in range(size1D)
NextNode(idx, size) ==
    IF idx.r + 1 < size[1] THEN [idx EXCEPT !.r = idx.r + 1]
    ELSE IF idx.g + 1 < size[2] THEN [idx EXCEPT !.r = 0, !.g = idx.g + 1]
    ELSE [r |-> 0, g |-> 0, b |-> idx.b + 1]

NoGen == [pc |-> "None"]

\* generate's frame when the constructor it called at line 387 is left
GenOnExit(ok) ==
    IF gen.pc = "init"
    THEN [gen EXCEPT !.pc = IF ok THEN "returned" ELSE "raised387"]
    ELSE gen

(***************************************************************************)
(* The arguments the constructors are called with                          *)
(***************************************************************************)
KernelSizes == (0..MaxSide) \X (0..MaxSide)
KernelWeights ==
    SeqsUpTo(Weights, MaxLen)
        \cup {BuiltinFilterargs(n)[4] : n \in BuiltinNames}
        \cup {SubSeq(CONTOUR[4], 1, 8), Append(CONTOUR[4], -1)}
Scales == {None, Some(0), Some(2)}
Offsets == {0}

WindowSizes == 0..MaxWindow
Ranks(size) == {-1, 0, 1, (size * size) \div 2, size * size - 1, size * size}

Radii == {0, 2}
UnsharpArgs == {<<2, 150, 3>>, <<0, 0, 0>>}

Channels == {3, 4}
TargetModes == {"None", "RGBA"}
AxisVals == ((LutMinSize - Margin)..(LutMinSize + Margin))
                \cup ((LutMaxSize - Margin)..(LutMaxSize + Margin))
SizeArgs ==
    {IntSize(n) : n \in AxisVals}
        \cup {SeqSize(<<a, b, c>>) : a \in AxisVals, b \in AxisVals, c \in AxisVals}
        \cup {SeqSize(q) : q \in {t \in SeqsUpTo({LutMinSize, LutMaxSize + 1}, 4) : Len(t) # 3}}

\* a size whose table the model builds: every axis at most MaxGrid
Small(size) ==
    LET chk == check_size(size)
    IN  chk.raised = "None" /\ \A i \in 1..3 : chk.size[i] <= MaxGrid

FlatTable(k) == [i \in 1..k |-> Num(i)]
NestedTable(lens) == [k \in 1..Len(lens) |-> Tup([j \in 1..lens[k] |-> Num(100 * k + j)])]
\* the tuple lengths of a table of m tuples: all right, one wrong, all wrong,
\* two wrong that add up to the right total
TupleLens(m, ch) ==
    {[k \in 1..m |-> ch], [k \in 1..m |-> ch + 1]}
        \cup {[k \in 1..m |-> IF k = p THEN d ELSE ch] : p \in {1, m}, d \in {ch - 1, ch + 1}}
        \cup {[k \in 1..m |-> IF k = 1 THEN ch - 1 ELSE IF k = m THEN ch + 1 ELSE ch]}
\* the tables tried with a size: around the right length for a small size
Tables(size, ch) ==
    IF ~Small(size) THEN {<<>>, FlatTable(ch * 8)}
    ELSE LET sz == check_size(size).size
             n == sz[1] * sz[2] * sz[3]
         IN  {FlatTable(k) : k \in {0, n, ch * n - 1, ch * n, ch * n + 1}}
                 \cup {NestedTable(l) : l \in UNION {TupleLens(m, ch) : m \in {n - 1, n, n + 1}}}

(***************************************************************************)
(* State                                                                   *)
(***************************************************************************)
Init ==
    /\ ctor = NoCall
    /\ filt = NoFilter
    /\ pc = [c \in Callers |-> "idle"]
    /\ arg = [c \in Callers |-> NoImage]
    /\ image = [c \in Callers |-> NoImage]
    /\ calls = [c \in Callers |-> <<>>]
    /\ ret = [c \in Callers |-> "None"]
    /\ gen = NoGen
    /\ lutinit = NoInit

callerVars == <<pc, arg, image, calls, ret>>

\* a constructor call and its outcome: the object, or the exception raised
Construct(cls, args, res) ==
    /\ ctor' = [cls |-> cls, args |-> args, raised |-> res.raised, msg |-> res.msg]
    /\ filt' = res.obj
    /\ UNCHANGED <<callerVars, gen, lutinit>>

NewKernel ==
    /\ ctor.cls = "None"
    /\ \E size \in KernelSizes, kernel \in KernelWeights, scale \in Scales, offset \in Offsets :
            Construct("Kernel",
                      [size |-> size, kernel |-> kernel, scale |-> scale, offset |-> offset],
                      Kernel_init(size, kernel, scale, offset))

NewBuiltin ==
    /\ ctor.cls = "None"
    /\ \E name \in BuiltinNames : Construct(name, [name |-> name], BuiltinFilter_init(name))

NewRankFilter ==
    /\ ctor.cls = "None"
    /\ \E size \in WindowSizes : \E rank \in Ranks(size) :
            Construct("RankFilter", [size |-> size, rank |-> rank], RankFilter_init(size, rank))

NewMedianFilter ==
    /\ ctor.cls = "None"
    /\ \E size \in WindowSizes :
            Construct("MedianFilter", [size |-> size], MedianFilter_init(size))

NewMinFilter ==
    /\ ctor.cls = "None"
    /\ \E size \in WindowSizes : Construct("MinFilter", [size |-> size], MinFilter_init(size))

NewMaxFilter ==
    /\ ctor.cls = "None"
    /\ \E size \in WindowSizes : Construct("MaxFilter", [size |-> size], MaxFilter_init(size))

NewModeFilter ==
    /\ ctor.cls = "None"
    /\ \E size \in WindowSizes : Construct("ModeFilter", [size |-> size], ModeFilter_init(size))

NewGaussianBlur ==
    /\ ctor.cls = "None"
    /\ \E radius \in Radii :
            Construct("GaussianBlur", [radius |-> radius], GaussianBlur_init(radius))

NewBoxBlur ==
    /\ ctor.cls = "None"
    /\ \E radius \in Radii : Construct("BoxBlur", [radius |-> radius], BoxBlur_init(radius))

NewUnsharpMask ==
    /\ ctor.cls = "None"
    /\ \E a \in UnsharpArgs :
            Construct("UnsharpMask", [radius |-> a[1], percent |-> a[2], threshold |-> a[3]],
                      UnsharpMask_init(a[1], a[2], a[3]))

NewColor3DLUT ==
    /\ ctor.cls = "None"
    /\ \E size \in SizeArgs, channels \in Channels, target_mode \in TargetModes :
          \E table \in Tables(size, channels) :
              LET frame == Color3DLUT_init_enter(size, table, channels, target_mode)
              IN  /\ ctor' = [cls |-> "Color3DLUT",
                              args |-> [size |-> size, table |-> table,
                                        channels |-> channels,
                                        target_mode |-> target_mode],
                              raised |-> frame.raised, msg |-> frame.msg]
                  /\ lutinit' = frame
    /\ UNCHANGED <<filt, callerVars, gen>>

\* Color3DLUT.__init__ lines 335-340: one pass of the loop over raw_table
Color3DLUT_init_loop ==
    /\ lutinit.pc = "L335"
    /\ LET pixel == lutinit.raw_table[lutinit.k]
       IN  IF Len(pixel.v) # lutinit.channels
           THEN /\ lutinit' = [lutinit EXCEPT !.pc = "raised337",
                                              !.raised = "ValueError", !.msg = MsgPixel]
                /\ ctor' = [ctor EXCEPT !.raised = "ValueError", !.msg = MsgPixel]
                /\ gen' = GenOnExit(FALSE)
           ELSE /\ lutinit' = [lutinit EXCEPT
                                  !.table = AppendPixel(@, pixel),
                                  !.k = @ + 1,
                                  !.pc = IF lutinit.k < Len(lutinit.raw_table)
                                         THEN "L335" ELSE "L342"]
                /\ UNCHANGED <<ctor, gen>>
    /\ UNCHANGED <<filt, callerVars>>

\* Color3DLUT.__init__ lines 342-348: the length test, then self.table = table
Color3DLUT_init_store ==
    /\ lutinit.pc = "L342"
    /\ IF Len(lutinit.table)
             # lutinit.channels * lutinit.size[1] * lutinit.size[2] * lutinit.size[3]
       THEN /\ lutinit' = [lutinit EXCEPT !.pc = "raised343",
                                          !.raised = "ValueError", !.msg = MsgTable]
            /\ ctor' = [ctor EXCEPT !.raised = "ValueError", !.msg = MsgTable]
            /\ gen' = GenOnExit(FALSE)
            /\ UNCHANGED filt
       ELSE /\ lutinit' = [lutinit EXCEPT !.pc = "returned"]
            /\ filt' = [cls |-> "Color3DLUT", size |-> lutinit.size,
                        channels |-> lutinit.channels, mode |-> lutinit.mode,
                        table |-> lutinit.table]
            /\ gen' = GenOnExit(TRUE)
            /\ UNCHANGED ctor
    /\ UNCHANGED callerVars

(***************************************************************************)
(* Color3DLUT.generate, one callback call at a time                        *)
(***************************************************************************)
\* lines 377-378: the size is checked, the table starts empty
generate_start ==
    /\ ctor.cls = "None"
    /\ \E size \in {a \in SizeArgs : check_size(a).raised # "None" \/ Small(a)},
          callback \in CallbackNames, channels \in Channels, target_mode \in TargetModes :
          LET chk == check_size(size)
          IN  /\ ctor' = [cls |-> "Color3DLUT.generate",
                          args |-> [size |-> size, callback |-> callback,
                                    channels |-> channels, target_mode |-> target_mode],
                          raised |-> chk.raised, msg |-> chk.msg]
              /\ gen' = IF chk.raised # "None"
                        THEN [pc |-> "raised377"]
                        ELSE [pc |-> "loop", size |-> chk.size, callback |-> callback,
                              channels |-> channels, target_mode |-> target_mode,
                              idx |-> [r |-> 0, g |-> 0, b |-> 0],
                              table |-> <<>>, cbcalls |-> <<>>]
    /\ UNCHANGED <<filt, callerVars, lutinit>>

\* lines 379-385: one pass through the body of the innermost loop
generate_loop ==
    /\ gen.pc = "loop"
    /\ LET r == Frac(gen.idx.r, gen.size[1] - 1)
           g == Frac(gen.idx.g, gen.size[2] - 1)
           b == Frac(gen.idx.b, gen.size[3] - 1)
           next == NextNode(gen.idx, gen.size)
       IN  gen' = [gen EXCEPT !.cbcalls = Append(@, <<r, g, b>>),
                              !.table = Append(@, Callback(gen.callback, r, g, b)),
                              !.idx = next,
                              !.pc = IF next.b < gen.size[3] THEN "loop" ELSE "L387"]
    /\ UNCHANGED <<ctor, filt, callerVars, lutinit>>

\* line 387: cls((size1D, size2D, size3D), table, channels, target_mode) is
\* entered; generate returns what the constructor returns
generate_return ==
    /\ gen.pc = "L387"
    /\ LET frame == Color3DLUT_init_enter(SeqSize(gen.size), gen.table, gen.channels,
                                          gen.target_mode)
       IN  /\ lutinit' = frame
           /\ ctor' = [ctor EXCEPT !.raised = frame.raised, !.msg = frame.msg]
           /\ gen' = [gen EXCEPT !.pc = IF frame.raised = "None" THEN "init"
                                        ELSE "raised387"]
    /\ UNCHANGED <<filt, callerVars>>

(***************************************************************************)
(* filter(image), line by line, for caller c                               *)
(***************************************************************************)
IsKernel(f) == f.cls = "Kernel" \/ f.cls \in BuiltinNames
IsRank(f) == f.cls \in {"RankFilter", "MedianFilter", "MinFilter", "MaxFilter"}

\* a method call on the image object: the engine's entry
EngineCall(op, on, args) == [op |-> op, on |-> on, args |-> args]

\* image.expand(x, y): a new image, larger by the margin on each side
expand(im, x, y) ==
    [mode |-> im.mode, size |-> <<im.size[1] + 2 * x, im.size[2] + 2 * y>>]

\* caller c calls filt.filter(im) with an image of its own
Enter(c) ==
    /\ pc[c] = "idle"
    /\ filt.cls # "None"
    /\ \E im \in Images :
          /\ arg' = [arg EXCEPT ![c] = im]
          /\ image' = [image EXCEPT ![c] = im]
    /\ pc' = [pc EXCEPT ![c] = "entered"]
    /\ UNCHANGED <<ctor, filt, calls, ret, gen, lutinit>>

\* the call is over; the caller drops the frame and may call again
Leave(c) ==
    /\ pc[c] \in {"returned", "raised"}
    /\ pc' = [pc EXCEPT ![c] = "idle"]
    /\ arg' = [arg EXCEPT ![c] = NoImage]
    /\ image' = [image EXCEPT ![c] = NoImage]
    /\ calls' = [calls EXCEPT ![c] = <<>>]
    /\ ret' = [ret EXCEPT ![c] = "None"]
    /\ UNCHANGED <<ctor, filt, gen, lutinit>>

\* the engine call made at a method's last line, whose result is returned
ReturnCall(c, op, args) ==
    /\ calls' = [calls EXCEPT ![c] = Append(@, EngineCall(op, image[c], args))]
    /\ ret' = [ret EXCEPT ![c] = "image"]
    /\ pc' = [pc EXCEPT ![c] = "returned"]
    /\ UNCHANGED <<ctor, filt, arg, image, gen, lutinit>>

\* Kernel.filter without its mode test
Kernel_filter_check_NoReject(c) ==
    /\ pc[c] = "entered"
    /\ IsKernel(filt)
    /\ pc' = [pc EXCEPT ![c] = "L59"]
    /\ UNCHANGED <<ctor, filt, arg, image, calls, ret, gen, lutinit>>

\* Kernel.filter lines 57-58
Kernel_filter_check(c) ==
    /\ pc[c] = "entered"
    /\ IsKernel(filt)
    /\ IF image[c].mode = "P"
       THEN /\ pc' = [pc EXCEPT ![c] = "raised"]
            /\ ret' = [ret EXCEPT ![c] = "ValueError"]
       ELSE /\ pc' = [pc EXCEPT ![c] = "L59"]
            /\ UNCHANGED ret
    /\ UNCHANGED <<ctor, filt, arg, image, calls, gen, lutinit>>

\* Kernel.filter line 59
Kernel_filter_apply(c) ==
    /\ pc[c] = "L59"
    /\ ReturnCall(c, "filter", filt.filterargs)

\* RankFilter.filter lines 84-85
RankFilter_filter_check(c) ==
    /\ pc[c] = "entered"
    /\ IsRank(filt)
    /\ IF image[c].mode = "P"
       THEN /\ pc' = [pc EXCEPT ![c] = "raised"]
            /\ ret' = [ret EXCEPT ![c] = "ValueError"]
       ELSE /\ pc' = [pc EXCEPT ![c] = "L86"]
            /\ UNCHANGED ret
    /\ UNCHANGED <<ctor, filt, arg, image, calls, gen, lutinit>>

\* line 86 keeping the margin in the filter object
RankFilter_filter_expand_StoresMargin(c) ==
    /\ pc[c] = "L86"
    /\ calls' = [calls EXCEPT ![c] =
                    Append(@, EngineCall("expand", image[c],
                                         <<filt.size \div 2, filt.size \div 2>>))]
    /\ image' = [image EXCEPT ![c] = expand(@, filt.size \div 2, filt.size \div 2)]
    /\ filt' = [filt EXCEPT !.size = filt.size \div 2]
    /\ pc' = [pc EXCEPT ![c] = "L87"]
    /\ UNCHANGED <<ctor, arg, ret, gen, lutinit>>

\* RankFilter.filter line 86: the local `image` is rebound to the expanded image
RankFilter_filter_expand(c) ==
    /\ pc[c] = "L86"
    /\ calls' = [calls EXCEPT ![c] =
                    Append(@, EngineCall("expand", image[c],
                                         <<filt.size \div 2, filt.size \div 2>>))]
    /\ image' = [image EXCEPT ![c] = expand(@, filt.size \div 2, filt.size \div 2)]
    /\ pc' = [pc EXCEPT ![c] = "L87"]
    /\ UNCHANGED <<ctor, filt, arg, ret, gen, lutinit>>

\* RankFilter.filter line 87
RankFilter_filter_apply(c) ==
    /\ pc[c] = "L87"
    /\ ReturnCall(c, "rankfilter", <<filt.size, filt.rank>>)

ModeFilter_filter(c) ==
    /\ pc[c] = "entered"
    /\ filt.cls = "ModeFilter"
    /\ ReturnCall(c, "modefilter", <<filt.size>>)

GaussianBlur_filter(c) ==
    /\ pc[c] = "entered"
    /\ filt.cls = "GaussianBlur"
    /\ ReturnCall(c, "gaussian_blur", <<filt.radius>>)

BoxBlur_filter(c) ==
    /\ pc[c] = "entered"
    /\ filt.cls = "BoxBlur"
    /\ ReturnCall(c, "box_blur", <<filt.radius>>)

UnsharpMask_filter(c) ==
    /\ pc[c] = "entered"
    /\ filt.cls = "UnsharpMask"
    /\ ReturnCall(c, "unsharp_mask", <<filt.radius, filt.percent, filt.threshold>>)

\* Color3DLUT.filter lines 392-394
Color3DLUT_filter(c) ==
    /\ pc[c] = "entered"
    /\ filt.cls = "Color3DLUT"
    /\ ReturnCall(c, "color_lut_3d",
                  <<IF filt.mode # "None" THEN filt.mode ELSE image[c].mode, "LINEAR",
                    filt.channels, filt.size[1], filt.size[2], filt.size[3], filt.table>>)

Next ==
    \/ NewKernel
    \/ NewBuiltin
    \/ NewRankFilter
    \/ NewMedianFilter
    \/ NewMinFilter
    \/ NewMaxFilter
    \/ NewModeFilter
    \/ NewGaussianBlur
    \/ NewBoxBlur
    \/ NewUnsharpMask
    \/ NewColor3DLUT
    \/ Color3DLUT_init_loop
    \/ Color3DLUT_init_store
    \/ generate_start
    \/ generate_loop
    \/ generate_return
    \/ \E c \in Callers :
          \/ Enter(c)
          \/ Leave(c)
          \/ Kernel_filter_check(c)
          \/ Kernel_filter_apply(c)
          \/ RankFilter_filter_check(c)
          \/ RankFilter_filter_expand(c)
          \/ RankFilter_filter_apply(c)
          \/ ModeFilter_filter(c)
          \/ GaussianBlur_filter(c)
          \/ BoxBlur_filter(c)
          \/ UnsharpMask_filter(c)
          \/ Color3DLUT_filter(c)

Spec == Init /\ [][Next]_vars

(***************************************************************************)
(* Properties                                                              *)
(***************************************************************************)
RECURSIVE WeightSum(_)
WeightSum(w) == IF w = <<>> THEN 0 ELSE Head(w) + WeightSum(Tail(w))

KernelCall == ctor.cls = "Kernel"
Area(size) == size[1] * size[2]

\* C1: a Kernel constructor call whose weight count differs from
\* width * height raises ValueError, whatever the size, the weights (an empty
\* sequence included) and the scale, and leaves no Kernel object.
C1_MismatchRaisesValueError ==
    KernelCall /\ Area(ctor.args.size) # Len(ctor.args.kernel)
        => ctor.raised = "ValueError" /\ filt = NoFilter

\* C2: with no scale given the stored scale is the sum of the weights, a sum
\* of 0 makes the constructor raise ValueError, and no Kernel object, nor any
\* call to the convolution engine, carries a scale of 0.
C2_ScaleNeverZero ==
    /\ KernelCall /\ ctor.args.scale = None /\ filt.cls = "Kernel"
          => filt.filterargs[2] = WeightSum(ctor.args.kernel)
    /\ KernelCall /\ ctor.args.scale = None /\ ctor.args.kernel # <<>>
          /\ WeightSum(ctor.args.kernel) = 0
          => ctor.raised = "ValueError"
    /\ filt.cls = "Kernel" => filt.filterargs[2] # 0
    /\ \A c \in Callers : \A i \in 1..Len(calls[c]) :
          calls[c][i].op = "filter" => calls[c][i].args[2] # 0

\* C3: filter(image) of a Kernel (built-in kernels included) or of a rank
\* filter (Median, Min, Max included) on a mode "P" image raises ValueError
\* before any engine call: no convolution, expansion or rank call is made
\* and no image is returned.
C3_PaletteRejected ==
    \A c \in Callers :
        arg[c].mode = "P" /\ (IsKernel(filt) \/ IsRank(filt))
            => /\ pc[c] \in {"entered", "raised"}
               /\ calls[c] = <<>>
               /\ ret[c] # "image"
               /\ pc[c] = "raised" => ret[c] = "ValueError"

C3_Witness ==
    \E c \in Callers :
        /\ arg[c].mode = "P"
        /\ filt.cls = "MedianFilter"
        /\ pc[c] = "raised"
        /\ ret[c] = "ValueError"

LutCall == ctor.cls \in {"Color3DLUT", "Color3DLUT.generate"}
SizeErrors == {MsgSizeShape, MsgSizeRange}
\* the three axis sizes a size argument stands for
Axes(size) == IF size.kind = "int" THEN <<size.val, size.val, size.val>> ELSE size.val
GoodSize(size) ==
    IF size.kind = "seq" /\ Len(size.val) # 3 THEN FALSE
    ELSE \A i \in 1..3 : Axes(size)[i] >= 2 /\ Axes(size)[i] <= 65

\* C4: a scalar size s stands for (s, s, s) and a 3-sequence for its three
\* axes; Color3DLUT(...) and generate(...) raise the size ValueError exactly
\* when some axis is outside [2, 65] or the size is a sequence of another
\* length, and a LUT that is built holds the three axis sizes.
C4_SizeValidation ==
    LutCall =>
        /\ ~GoodSize(ctor.args.size)
              => /\ ctor.raised = "ValueError"
                 /\ ctor.msg \in SizeErrors
                 /\ filt = NoFilter
                 /\ ctor.cls = "Color3DLUT" => lutinit.pc = "raised327"
                 /\ ctor.cls = "Color3DLUT.generate" => gen.pc = "raised377"
        /\ GoodSize(ctor.args.size) => ctor.msg \notin SizeErrors
        /\ filt.cls = "Color3DLUT"
              => GoodSize(ctor.args.size) /\ filt.size = Axes(ctor.args.size)

C4_Witness ==
    /\ ctor.cls = "Color3DLUT"
    /\ ctor.args.size = IntSize(2)
    /\ filt.cls = "Color3DLUT"
    /\ filt.size = <<2, 2, 2>>

\* the constructor, called directly or by generate at its last line, is left
\* after its size passed the check
TableChecked == lutinit.pc \in {"returned", "raised337", "raised343"}
TableGiven == IF ctor.cls = "Color3DLUT" THEN ctor.args.table ELSE gen.table
AxesGiven == IF ctor.cls = "Color3DLUT" THEN Axes(ctor.args.size) ELSE gen.size
Nodes(d) == d[1] * d[2] * d[3]

\* C5: a Color3DLUT that is built stores a flat table of exactly
\* channels * d1 * d2 * d3 numbers; a flat table of another length raises
\* ValueError; a table of tuples is flattened in order, and raises ValueError
\* when a tuple's length is not channels or the tuples are not d1 * d2 * d3.
C5_TableLength ==
    /\ filt.cls = "Color3DLUT"
          => /\ Len(filt.table) = filt.channels * Nodes(filt.size)
             /\ \A i \in 1..Len(filt.table) : ~filt.table[i].isTuple
    /\ TableChecked
          => LET t == TableGiven
                 ch == ctor.args.channels
                 n == Nodes(AxesGiven)
             IN  IF t = <<>> \/ ~t[1].isTuple
                 THEN IF Len(t) = ch * n
                      THEN filt.cls = "Color3DLUT" /\ filt.table = t
                      ELSE ctor.raised = "ValueError" /\ filt = NoFilter
                 ELSE IF Len(t) # n \/ \E k \in 1..Len(t) : Len(t[k].v) # ch
                      THEN ctor.raised = "ValueError" /\ filt = NoFilter
                      ELSE /\ filt.cls = "Color3DLUT"
                           /\ \A k \in 1..n : \A j \in 1..ch :
                                 filt.table[(k - 1) * ch + j] = t[k].v[j]

C5_Witness ==
    /\ ctor.cls = "Color3DLUT"
    /\ filt.cls = "Color3DLUT"
    /\ ctor.args.table[1].isTuple
    /\ filt.size = <<2, 3, 2>>
    /\ filt.channels = 4

\* the coordinates of the k-th grid node (from 0), red index fastest
Node(k, d) ==
    <<Frac(k % d[1], d[1] - 1),
      Frac((k \div d[1]) % d[2], d[2] - 1),
      Frac(k \div (d[1] * d[2]), d[3] - 1)>>
Zero == [num |-> 0, den |-> 1]
One == [num |-> 1, den |-> 1]

\* C6: generate calls the callback once per grid node, d1 * d2 * d3 calls,
\* red index fastest, then green, then blue, each coordinate the node index
\* over dim - 1; the k-th call's tuple fills positions k * channels to
\* k * channels + channels - 1 of the table; for (2, 2, 2) the calls are
\* (0,0,0),(1,0,0),(0,1,0),(1,1,0),(0,0,1),(1,0,1),(0,1,1),(1,1,1).
C6_GenerateOrder ==
    gen.pc \in {"loop", "L387", "init", "returned", "raised387"}
        => LET d == gen.size
               n == Len(gen.cbcalls)
               ch == gen.channels
           IN  /\ n <= Nodes(d)
               /\ gen.pc # "loop" => n = Nodes(d)
               /\ \A k \in 1..n : gen.cbcalls[k] = Node(k - 1, d)
               /\ Cardinality({gen.cbcalls[k] : k \in 1..n}) = n
               /\ gen.pc = "returned"
                     => \A k \in 1..n : \A j \in 1..ch :
                           filt.table[(k - 1) * ch + j]
                               = Callback(gen.callback, Node(k - 1, d)[1], Node(k - 1, d)[2],
                                          Node(k - 1, d)[3]).v[j]
               /\ d = <<2, 2, 2>> /\ gen.pc # "loop"
                     => gen.cbcalls = << <<Zero, Zero, Zero>>, <<One, Zero, Zero>>,
                                         <<Zero, One, Zero>>, <<One, One, Zero>>,
                                         <<Zero, Zero, One>>, <<One, Zero, One>>,
                                         <<Zero, One, One>>, <<One, One, One>> >>

C6_Witness ==
    /\ gen.pc = "returned"
    /\ gen.size = <<2, 2, 2>>
    /\ Len(filt.table) = 8 * gen.channels

\* C7: every call a filter makes to its engine carries parameters of the data
\* model (a Kernel size of (3,3) or (5,5); a rank window that is odd and
\* positive with its rank in 0..window*window-1), and a constructor call with
\* other parameters raises instead of producing a filter.
C7_EngineArgsValid ==
    /\ \A c \in Callers : \A i \in 1..Len(calls[c]) :
          LET e == calls[c][i]
          IN  /\ e.op = "filter" => e.args[1] \in {<<3, 3>>, <<5, 5>>}
              /\ e.op = "rankfilter"
                    => /\ e.args[1] > 0
                       /\ e.args[1] % 2 = 1
                       /\ e.args[2] >= 0
                       /\ e.args[2] <= e.args[1] * e.args[1] - 1
    /\ KernelCall /\ ctor.args.size \notin {<<3, 3>>, <<5, 5>>}
          => ctor.raised # "None" /\ filt = NoFilter
    /\ ctor.cls = "RankFilter"
          /\ ~(/\ ctor.args.size > 0
               /\ ctor.args.size % 2 = 1
               /\ ctor.args.rank >= 0
               /\ ctor.args.rank <= ctor.args.size * ctor.args.size - 1)
          => ctor.raised # "None" /\ filt = NoFilter

\* the engine calls filter(im) of filter f makes, from f and im alone
EngineTrace(f, im) ==
    CASE IsKernel(f) ->
            IF im.mode = "P" THEN <<>>
            ELSE <<EngineCall("filter", im, f.filterargs)>>
      [] IsRank(f) ->
            IF im.mode = "P" THEN <<>>
            ELSE <<EngineCall("expand", im, <<f.size \div 2, f.size \div 2>>),
                   EngineCall("rankfilter",
                              [mode |-> im.mode,
                               size |-> <<im.size[1] + 2 * (f.size \div 2),
                                          im.size[2] + 2 * (f.size \div 2)>>],
                              <<f.size, f.rank>>)>>
      [] f.cls = "ModeFilter" -> <<EngineCall("modefilter", im, <<f.size>>)>>
      [] f.cls = "GaussianBlur" -> <<EngineCall("gaussian_blur", im, <<f.radius>>)>>
      [] f.cls = "BoxBlur" -> <<EngineCall("box_blur", im, <<f.radius>>)>>
      [] f.cls = "UnsharpMask" ->
            <<EngineCall("unsharp_mask", im, <<f.radius, f.percent, f.threshold>>)>>
      [] f.cls = "Color3DLUT" ->
            <<EngineCall("color_lut_3d", im,
                         <<IF f.mode = "None" THEN im.mode ELSE f.mode, "LINEAR",
                           f.channels, f.size[1], f.size[2], f.size[3], f.table>>)>>

\* C8: no step of any caller's filter(image) changes the filter object or
\* the image the caller passed, whatever the interleaving of the callers, and
\* the engine calls of a filter(image) are those its image and the filter
\* determine.
C8_SpecImmutable ==
    [][/\ filt.cls # "None" => filt' = filt
       /\ \A c \in Callers :
             /\ pc[c] # "idle" /\ pc'[c] # "idle" => arg'[c] = arg[c]
             /\ pc'[c] # "idle"
                   => calls'[c] = SubSeq(EngineTrace(filt', arg'[c]), 1, Len(calls'[c]))
             /\ pc'[c] = "returned" => calls'[c] = EngineTrace(filt', arg'[c])]_vars

C8_Witness ==
    /\ IsRank(filt)
    /\ pc["c1"] = "L87"
    /\ pc["c2"] = "returned"
    /\ arg["c1"] # arg["c2"]

\* C9: MinFilter(w) has rank 0, MedianFilter(w) rank floor(w*w/2) and
\* MaxFilter(w) rank w*w-1; for odd positive w these lie in order within
\* 0..w*w-1; filter() of a rank filter first expands the image by floor(w/2)
\* on each side and then calls the rank engine on the expanded image with
\* (w, rank).
C9_NamedRanks ==
    /\ filt.cls \in {"MinFilter", "MedianFilter", "MaxFilter"}
          => LET w == ctor.args.size
             IN  /\ filt.size = w
                 /\ filt.cls = "MinFilter" => filt.rank = 0
                 /\ filt.cls = "MedianFilter"
                       => 2 * filt.rank <= w * w /\ w * w < 2 * filt.rank + 2
                 /\ filt.cls = "MaxFilter" => filt.rank = w * w - 1
                 /\ w > 0 /\ w % 2 = 1 => 0 <= filt.rank /\ filt.rank <= w * w - 1
    /\ IsRank(filt)
          => \A c \in Callers :
                LET w == filt.size
                    m == CHOOSE h \in 0..w : 2 * h <= w /\ w < 2 * h + 2
                IN  /\ pc[c] = "returned" => Len(calls[c]) = 2
                    /\ Len(calls[c]) >= 1
                          => calls[c][1] = EngineCall("expand", arg[c], <<m, m>>)
                    /\ Len(calls[c]) >= 2
                          => /\ calls[c][2].op = "rankfilter"
                             /\ calls[c][2].args = <<w, filt.rank>>
                             /\ calls[c][2].on.size
                                   = <<arg[c].size[1] + 2 * m, arg[c].size[2] + 2 * m>>

C9_Witness ==
    /\ filt.cls = "MedianFilter"
    /\ filt.size = 3
    /\ filt.rank = 4
    /\ \E c \in Callers :
          /\ pc[c] = "returned"
          /\ arg[c] = [mode |-> "L", size |-> <<4, 4>>]

\* C10: every built-in kernel has size (3,3) or (5,5), width * height
\* weights and a scale that is not 0: the sum of its weights when that sum
\* is not 0, and 1 when it is.
C10_BuiltinsValid ==
    filt.cls \in BuiltinNames
        => LET fa == filt.filterargs
               sum == WeightSum(fa[4])
           IN  /\ fa[1] \in {<<3, 3>>, <<5, 5>>}
               /\ Len(fa[4]) = fa[1][1] * fa[1][2]
               /\ fa[2] # 0
               /\ sum # 0 => fa[2] = sum
               /\ sum = 0 => fa[2] = 1
               /\ \A c \in Callers : \A i \in 1..Len(calls[c]) :
                     calls[c][i].args = fa

C10_Witness ==
    /\ filt.cls = "EMBOSS"
    /\ \E c \in Callers : pc[c] = "returned" /\ calls[c][1].args[2] = 1

====
